---------------------------- MODULE Spec2Model ----------------------------
(***************************************************************************)
(* The configuration Manager of gpt-load (internal/config/manager.go):     *)
(* the primitive parsers, the assembly of the configuration from the       *)
(* environment, Validate, the section accessors and the round-robin        *)
(* selection of GetOpenAIConfig.                                           *)
(*                                                                         *)
(* Strings that the code parses are sequences of one-character strings.    *)
(* A slice is a header [ptr, len] into `heap`, the backing arrays, so that *)
(* the copy an accessor returns shares its arrays with m.config as a Go    *)
(* struct copy does.  roundRobinCounter is a uint64 kept as NumLimbs       *)
(* little-endian limbs of base LimbBase, since 2^64 exceeds TLC's integers.*)
(***************************************************************************)
EXTENDS Integers, Sequences, FiniteSets, TLC

VARIABLES
    env,                \* the process environment after godotenv.Load
    manager,            \* "none" | "ok" | "failed": what NewManager returned
    config,             \* m.config
    heap,               \* backing arrays of the slices of m.config
    roundRobinCounter,  \* m.roundRobinCounter (limbs, little-endian)
    validationErrors,   \* the messages of the last Validate
    frames,             \* each caller's call in progress / value it holds
    history,            \* per caller, the GetOpenAIConfig calls that returned
    calls,              \* number of GetOpenAIConfig calls started
    writes,             \* number of writes callers made to returned values
    parseIn,            \* parseArray under test: its arguments
    parseOut            \* parseArray under test: its result

vars == <<env, manager, config, heap, roundRobinCounter, validationErrors,
          frames, history, calls, writes, parseIn, parseOut>>

---------------------------------------------------------------------------
(* Bounds of the model *)

NumCallers == 2
MaxCalls == 6
MaxSingleCalls == 12
MaxWrites == 2
MaxLen == 5

Callers == 1..NumCallers

---------------------------------------------------------------------------
(* Characters and strings *)

Lower == {"a","b","c","d","e","f","g","h","i","j","k","l","m",
          "n","o","p","q","r","s","t","u","v","w","x","y","z"}
Upper == {"A","B","C","D","E","F","G","H","I","J","K","L","M",
          "N","O","P","Q","R","S","T","U","V","W","X","Y","Z"}
Digit == {"0","1","2","3","4","5","6","7","8","9"}
HexDigit == Digit \cup {"a","b","c","d","e","f","A","B","C","D","E","F"}

\* unicode.IsSpace restricted to ASCII
IsSpace(ch) == ch \in {" ", "\t", "\n", "\r", "\f"}

DigitVal(ch) ==
    CASE ch = "0" -> 0 [] ch = "1" -> 1 [] ch = "2" -> 2 [] ch = "3" -> 3
      [] ch = "4" -> 4 [] ch = "5" -> 5 [] ch = "6" -> 6 [] ch = "7" -> 7
      [] ch = "8" -> 8 [] ch = "9" -> 9

UpperSeq == <<"A","B","C","D","E","F","G","H","I","J","K","L","M",
              "N","O","P","Q","R","S","T","U","V","W","X","Y","Z">>
LowerSeq == <<"a","b","c","d","e","f","g","h","i","j","k","l","m",
              "n","o","p","q","r","s","t","u","v","w","x","y","z">>

\* strings.ToLower, one character
ToLowerChar(ch) ==
    IF ch \in Upper
    THEN LowerSeq[CHOOSE i \in 1..26 : UpperSeq[i] = ch]
    ELSE ch

ToLower(s) == [i \in 1..Len(s) |-> ToLowerChar(s[i])]

\* strings.Index(s, ch) as a 1-based position, 0 when absent
IndexOf(s, ch) ==
    IF \E i \in 1..Len(s) : s[i] = ch
    THEN CHOOSE i \in 1..Len(s) : s[i] = ch /\ \A j \in 1..(i-1) : s[j] # ch
    ELSE 0

\* strings.LastIndex(s, ch) as a 1-based position, 0 when absent
LastIndexOf(s, ch) ==
    IF \E i \in 1..Len(s) : s[i] = ch
    THEN CHOOSE i \in 1..Len(s) : s[i] = ch /\ \A j \in (i+1)..Len(s) : s[j] # ch
    ELSE 0

HasPrefix2(s, c1, c2) == Len(s) >= 2 /\ s[1] = c1 /\ s[2] = c2

---------------------------------------------------------------------------
(* Primitive parsers *)

\* strconv.Atoi: an optional sign and then one or more decimal digits.
\* (Inputs of the model are short, so the range error of Atoi never arises.)
Atoi(s) ==
    LET neg == Len(s) > 0 /\ s[1] = "-"
        signed == Len(s) > 0 /\ s[1] \in {"-", "+"}
        digits == IF signed THEN Tail(s) ELSE s
        RECURSIVE Val(_, _)
        Val(d, acc) == IF d = <<>> THEN acc
                       ELSE Val(Tail(d), acc * 10 + DigitVal(Head(d)))
    IN  IF digits = <<>> \/ \E i \in 1..Len(digits) : digits[i] \notin Digit
        THEN [ok |-> FALSE, val |-> 0]
        ELSE [ok |-> TRUE,
              val |-> IF neg THEN 0 - Val(digits, 0) ELSE Val(digits, 0)]

parseInteger(value, defaultValue) ==
    IF value = <<>> THEN defaultValue
    ELSE IF Atoi(value).ok THEN Atoi(value).val
    ELSE defaultValue

parseBoolean(value, defaultValue) ==
    IF value = <<>> THEN defaultValue
    ELSE LET lowerValue == ToLower(value)
         IN  IF lowerValue \in {<<"t","r","u","e">>, <<"1">>,
                                <<"y","e","s">>, <<"o","n">>}
             THEN TRUE
             ELSE IF lowerValue \in {<<"f","a","l","s","e">>, <<"0">>,
                                     <<"n","o">>, <<"o","f","f">>}
             THEN FALSE
             ELSE defaultValue

\* strings.Split(s, ","): the segments between the commas, empty ones kept
RECURSIVE SplitFrom(_, _)
SplitFrom(s, cur) ==
    IF s = <<>> THEN <<cur>>
    ELSE IF Head(s) = "," THEN <<cur>> \o SplitFrom(Tail(s), <<>>)
    ELSE SplitFrom(Tail(s), Append(cur, Head(s)))

Split(s) == SplitFrom(s, <<>>)

RECURSIVE TrimLeft(_)
TrimLeft(s) ==
    IF s # <<>> /\ IsSpace(Head(s)) THEN TrimLeft(Tail(s)) ELSE s

RECURSIVE TrimRight(_)
TrimRight(s) ==
    IF s # <<>> /\ IsSpace(s[Len(s)]) THEN TrimRight(SubSeq(s, 1, Len(s) - 1))
    ELSE s

\* strings.TrimSpace
TrimSpace(s) == TrimRight(TrimLeft(s))

\* the loop of parseArray: append every part that is non-empty once trimmed
RECURSIVE CollectTrimmed(_, _)
CollectTrimmed(parts, result) ==
    IF parts = <<>> THEN result
    ELSE LET trimmed == TrimSpace(Head(parts))
         IN  CollectTrimmed(Tail(parts),
                            IF trimmed # <<>> THEN Append(result, trimmed)
                            ELSE result)

parseArrayResult(value) == CollectTrimmed(Split(value), <<>>)

\* parseArray without the fallback of lines 294-296
parseArrayNoFallback(value, defaultValue) ==
    IF value = <<>> THEN defaultValue ELSE parseArrayResult(value)

parseArray(value, defaultValue) ==
    IF value = <<>> THEN defaultValue
    ELSE IF Len(parseArrayResult(value)) = 0 THEN defaultValue
    ELSE parseArrayResult(value)

---------------------------------------------------------------------------
(* net/url.Parse, as far as its error result goes (Validate reads only err) *)

\* stringContainsCTLByte: a byte below 0x20 or 0x7f
ContainsCTL(s) == \E i \in 1..Len(s) : s[i] \in {"\t", "\n", "\r", "\f"}

\* shouldEscape(c, encodeHost) is false for these ASCII characters
HostChar == Lower \cup Upper \cup Digit \cup
            {"!", "$", "&", "'", "(", ")", "*", "+", ",", ";", "=", ":",
             "[", "]", "<", ">", "\"", "-", "_", ".", "~"}

\* validUserinfo
UserinfoChar == Lower \cup Upper \cup Digit \cup
                {"-", ".", "_", ":", "~", "!", "$", "&", "'", "(", ")",
                 "*", "+", ",", ";", "=", "%", "@"}

\* unescape(s, mode) returns an error: a '%' not followed by two hex digits;
\* in a host, an escape below %80 other than %25, or a character that
\* shouldEscape(c, encodeHost) wants escaped.
UnescapeErr(s, inHost) ==
    \/ \E i \in 1..Len(s) :
          /\ s[i] = "%"
          /\ \/ i + 2 > Len(s)
             \/ s[i+1] \notin HexDigit
             \/ s[i+2] \notin HexDigit
             \/ inHost /\ s[i+1] \in {"0","1","2","3","4","5","6","7"}
                       /\ ~(s[i+1] = "2" /\ s[i+2] = "5")
    \/ inHost /\ \E i \in 1..Len(s) : s[i] # "%" /\ s[i] \notin HostChar

validOptionalPort(port) ==
    \/ port = <<>>
    \/ port[1] = ":" /\ \A i \in 2..Len(port) : port[i] \in Digit

parseHostErr(host) ==
    IF host # <<>> /\ host[1] = "["
    THEN LET i == LastIndexOf(host, "]")
         IN  \/ i = 0
             \/ ~validOptionalPort(SubSeq(host, i + 1, Len(host)))
             \/ UnescapeErr(host, TRUE)
    ELSE LET i == LastIndexOf(host, ":")
         IN  \/ i # 0 /\ ~validOptionalPort(SubSeq(host, i, Len(host)))
             \/ UnescapeErr(host, TRUE)

parseAuthorityErr(authority) ==
    LET i == LastIndexOf(authority, "@")
        host == SubSeq(authority, i + 1, Len(authority))
        userinfo == SubSeq(authority, 1, i - 1)
    IN  \/ parseHostErr(host)
        \/ /\ i # 0
           /\ \/ \E j \in 1..Len(userinfo) : userinfo[j] \notin UserinfoChar
              \/ UnescapeErr(userinfo, FALSE)

\* getScheme: [scheme, rest, err]
RECURSIVE getSchemeAt(_, _)
getSchemeAt(rawURL, i) ==
    IF i > Len(rawURL) THEN [scheme |-> <<>>, rest |-> rawURL, err |-> FALSE]
    ELSE LET c == rawURL[i]
         IN  IF c \in Lower \cup Upper THEN getSchemeAt(rawURL, i + 1)
             ELSE IF c \in Digit \cup {"+", "-", "."}
             THEN IF i = 1
                  THEN [scheme |-> <<>>, rest |-> rawURL, err |-> FALSE]
                  ELSE getSchemeAt(rawURL, i + 1)
             ELSE IF c = ":"
             THEN IF i = 1
                  THEN [scheme |-> <<>>, rest |-> <<>>, err |-> TRUE]
                  ELSE [scheme |-> SubSeq(rawURL, 1, i - 1),
                        rest |-> SubSeq(rawURL, i + 1, Len(rawURL)),
                        err |-> FALSE]
             ELSE [scheme |-> <<>>, rest |-> rawURL, err |-> FALSE]

getScheme(rawURL) == getSchemeAt(rawURL, 1)

\* strings.Cut(s, ch): the part before the first ch (all of s when absent)
CutBefore(s, ch) ==
    IF IndexOf(s, ch) = 0 THEN s ELSE SubSeq(s, 1, IndexOf(s, ch) - 1)

\* strings.Cut(s, ch): the part after the first ch (empty when absent)
CutAfter(s, ch) ==
    IF IndexOf(s, ch) = 0 THEN <<>> ELSE SubSeq(s, IndexOf(s, ch) + 1, Len(s))

\* url.parse(rawURL, viaRequest = false): [err, Scheme, Host]
urlparse(rawURL) ==
    LET Fail == [err |-> TRUE, Scheme |-> <<>>, Host |-> <<>>]
        gs == getScheme(rawURL)
        rest == CutBefore(gs.rest, "?")
        rooted == rest # <<>> /\ rest[1] = "/"
        hasAuthority == HasPrefix2(rest, "/", "/")
        afterSlashes == SubSeq(rest, 3, Len(rest))
        authority == CutBefore(afterSlashes, "/")
        path == IF hasAuthority
                THEN SubSeq(afterSlashes, Len(authority) + 1, Len(afterSlashes))
                ELSE rest
        host == SubSeq(authority, LastIndexOf(authority, "@") + 1, Len(authority))
    IN  IF ContainsCTL(rawURL) THEN Fail
        ELSE IF rawURL = <<"*">>
        THEN [err |-> FALSE, Scheme |-> <<>>, Host |-> <<>>]
        ELSE IF gs.err THEN Fail
        ELSE IF ~rooted /\ gs.scheme # <<>>
        THEN [err |-> FALSE, Scheme |-> ToLower(gs.scheme), Host |-> <<>>]
        ELSE IF ~rooted /\ IndexOf(CutBefore(rest, "/"), ":") # 0 THEN Fail
        ELSE IF hasAuthority /\ parseAuthorityErr(authority) THEN Fail
        ELSE IF UnescapeErr(path, FALSE) THEN Fail
        ELSE [err |-> FALSE, Scheme |-> ToLower(gs.scheme),
              Host |-> IF hasAuthority THEN host ELSE <<>>]

\* url.Parse(rawURL): the fragment is cut off first and unescaped last
urlParse(rawURL) ==
    LET u == urlparse(CutBefore(rawURL, "#"))
    IN  IF u.err THEN u
        ELSE IF UnescapeErr(CutAfter(rawURL, "#"), FALSE)
        THEN [err |-> TRUE, Scheme |-> <<>>, Host |-> <<>>]
        ELSE u

---------------------------------------------------------------------------
(* Constants and defaults *)

\* DefaultConstants
MinPort == 1
MaxPort == 65535
MinTimeout == 1
DefaultTimeout == 30

EnvNames == {"PORT", "HOST", "SERVER_READ_TIMEOUT", "SERVER_WRITE_TIMEOUT",
             "SERVER_IDLE_TIMEOUT", "SERVER_GRACEFUL_SHUTDOWN_TIMEOUT",
             "API_KEYS", "START_INDEX", "BLACKLIST_THRESHOLD", "MAX_RETRIES",
             "OPENAI_BASE_URL", "REQUEST_TIMEOUT", "RESPONSE_TIMEOUT",
             "IDLE_CONN_TIMEOUT", "AUTH_KEY", "ENABLE_CORS", "ALLOWED_ORIGINS",
             "ALLOWED_METHODS", "ALLOWED_HEADERS", "ALLOW_CREDENTIALS",
             "MAX_CONCURRENT_REQUESTS", "ENABLE_GZIP", "LOG_LEVEL",
             "LOG_FORMAT", "LOG_ENABLE_FILE", "LOG_FILE_PATH",
             "LOG_ENABLE_REQUEST"}

\* os.Getenv of a variable that is not set is ""
UnsetEnv == [n \in EnvNames |-> <<>>]

getEnvOrDefault(e, key, defaultValue) ==
    IF e[key] # <<>> THEN e[key] ELSE defaultValue

DefaultBaseURLs == <<<<"h","t","t","p","s",":","/","/","a","p","i",".","o","p","e","n","a","i",".","c","o","m">>>>
DefaultMethods == <<<<"G","E","T">>, <<"P","O","S","T">>, <<"P","U","T">>,
                    <<"D","E","L","E","T","E">>, <<"O","P","T","I","O","N","S">>>>
DefaultWildcard == << <<"*">> >>

---------------------------------------------------------------------------
(* The configuration and its slices *)

SliceNames == {"APIKeys", "BaseURLs", "AllowedOrigins", "AllowedMethods",
               "AllowedHeaders"}

Sections == {"Server", "Keys", "OpenAI", "Auth", "CORS", "Performance", "Log"}

\* the list fields (slices) of each section
SliceFields(section) ==
    CASE section = "Keys" -> {"APIKeys"}
      [] section = "OpenAI" -> {"BaseURLs"}
      [] section = "CORS" -> {"AllowedOrigins", "AllowedMethods", "AllowedHeaders"}
      [] OTHER -> {}

\* a slice header over the backing array heap[name]
SliceOf(hp, name) == [ptr |-> name, len |-> Len(hp[name])]

\* the elements a slice header denotes
Elems(hp, slice) == SubSeq(hp[slice.ptr], 1, slice.len)

\* the arrays that NewManager's parseArray calls allocate (lines 73-92)
AssembleHeap(e) ==
    [n \in SliceNames |->
        CASE n = "APIKeys" -> parseArray(e["API_KEYS"], <<>>)
          [] n = "BaseURLs" -> parseArray(e["OPENAI_BASE_URL"], DefaultBaseURLs)
          [] n = "AllowedOrigins" -> parseArray(e["ALLOWED_ORIGINS"], DefaultWildcard)
          [] n = "AllowedMethods" -> parseArray(e["ALLOWED_METHODS"], DefaultMethods)
          [] n = "AllowedHeaders" -> parseArray(e["ALLOWED_HEADERS"], DefaultWildcard)]

\* config := &Config{...} of NewManager (lines 63-106)
AssembleConfig(e) ==
    LET hp == AssembleHeap(e)
    IN  [Server |->
            [Port |-> parseInteger(e["PORT"], 7860),
             Host |-> getEnvOrDefault(e, "HOST", <<"0",".","0",".","0",".","0">>),
             ReadTimeout |-> parseInteger(e["SERVER_READ_TIMEOUT"], 120),
             WriteTimeout |-> parseInteger(e["SERVER_WRITE_TIMEOUT"], 1800),
             IdleTimeout |-> parseInteger(e["SERVER_IDLE_TIMEOUT"], 120),
             GracefulShutdownTimeout |->
                 parseInteger(e["SERVER_GRACEFUL_SHUTDOWN_TIMEOUT"], 60)],
         Keys |->
            [APIKeys |-> SliceOf(hp, "APIKeys"),
             StartIndex |-> parseInteger(e["START_INDEX"], 0),
             BlacklistThreshold |-> parseInteger(e["BLACKLIST_THRESHOLD"], 1),
             MaxRetries |-> parseInteger(e["MAX_RETRIES"], 3)],
         OpenAI |->
            [BaseURL |-> <<>>,
             BaseURLs |-> SliceOf(hp, "BaseURLs"),
             RequestTimeout |-> parseInteger(e["REQUEST_TIMEOUT"], DefaultTimeout),
             ResponseTimeout |-> parseInteger(e["RESPONSE_TIMEOUT"], 30),
             IdleConnTimeout |-> parseInteger(e["IDLE_CONN_TIMEOUT"], 120)],
         Auth |->
            [Key |-> e["AUTH_KEY"],
             Enabled |-> e["AUTH_KEY"] # <<>>],
         CORS |->
            [Enabled |-> parseBoolean(e["ENABLE_CORS"], TRUE),
             AllowedOrigins |-> SliceOf(hp, "AllowedOrigins"),
             AllowedMethods |-> SliceOf(hp, "AllowedMethods"),
             AllowedHeaders |-> SliceOf(hp, "AllowedHeaders"),
             AllowCredentials |-> parseBoolean(e["ALLOW_CREDENTIALS"], FALSE)],
         Performance |->
            [MaxConcurrentRequests |->
                 parseInteger(e["MAX_CONCURRENT_REQUESTS"], 100),
             EnableGzip |-> parseBoolean(e["ENABLE_GZIP"], TRUE)],
         Log |->
            [Level |-> getEnvOrDefault(e, "LOG_LEVEL", <<"i","n","f","o">>),
             Format |-> getEnvOrDefault(e, "LOG_FORMAT", <<"t","e","x","t">>),
             EnableFile |-> parseBoolean(e["LOG_ENABLE_FILE"], FALSE),
             FilePath |-> getEnvOrDefault(e, "LOG_FILE_PATH",
                              <<"l","o","g","s","/","a","p","p",".","l","o","g">>),
             EnableRequest |-> parseBoolean(e["LOG_ENABLE_REQUEST"], TRUE)]]

---------------------------------------------------------------------------
(* Validate *)

Msg(text, arg) == [text |-> text, arg |-> arg]

MsgPort == Msg("port must be between MinPort-MaxPort", <<>>)
MsgStartIndex == Msg("start index cannot be less than 0", <<>>)
MsgBlacklist == Msg("blacklist threshold cannot be less than 1", <<>>)
MsgTimeout == Msg("request timeout cannot be less than MinTimeout s", <<>>)
MsgNoUpstream == Msg("at least one upstream API URL is required", <<>>)
MsgMaxConcurrent == Msg("max concurrent requests cannot be less than 1", <<>>)
MsgBadURL(baseURL) == Msg("invalid upstream API URL format: %s", baseURL)

\* line 166 with the bounds excluded
PortOutOfRangeExclusive(port) == port <= MinPort \/ port >= MaxPort

\* line 166
PortOutOfRange(port) == port < MinPort \/ port > MaxPort

\* lines 189-193: one message for every entry url.Parse rejects
RECURSIVE urlErrors(_)
urlErrors(baseURLs) ==
    IF baseURLs = <<>> THEN <<>>
    ELSE (IF urlParse(Head(baseURLs)).err
          THEN <<MsgBadURL(Head(baseURLs))>> ELSE <<>>)
         \o urlErrors(Tail(baseURLs))

\* the messages each check of Validate appends, in the order of lines 165-198
ValidationChecks(cfg, hp) ==
    LET baseURLs == Elems(hp, cfg.OpenAI.BaseURLs)
    IN  << IF PortOutOfRange(cfg.Server.Port) THEN <<MsgPort>> ELSE <<>>,
           IF cfg.Keys.StartIndex < 0 THEN <<MsgStartIndex>> ELSE <<>>,
           IF cfg.Keys.BlacklistThreshold < 1 THEN <<MsgBlacklist>> ELSE <<>>,
           IF cfg.OpenAI.RequestTimeout < MinTimeout THEN <<MsgTimeout>> ELSE <<>>,
           IF Len(baseURLs) = 0 THEN <<MsgNoUpstream>> ELSE <<>>,
           urlErrors(baseURLs),
           IF cfg.Performance.MaxConcurrentRequests < 1
           THEN <<MsgMaxConcurrent>> ELSE <<>> >>

RECURSIVE Flatten(_)
Flatten(lists) ==
    IF lists = <<>> THEN <<>> ELSE Head(lists) \o Flatten(Tail(lists))

\* a Validate that returns at the first check that fails
ValidateFailFast(cfg, hp) ==
    LET checks == ValidationChecks(cfg, hp)
        failed == {i \in 1..Len(checks) : checks[i] # <<>>}
    IN  IF failed = {} THEN <<>>
        ELSE checks[CHOOSE i \in failed : \A j \in failed : i <= j]

\* validationErrors as Validate has built it at line 200: every check has run
Validate(cfg, hp) == Flatten(ValidationChecks(cfg, hp))

---------------------------------------------------------------------------
(* roundRobinCounter: a uint64 as little-endian limbs *)

NumLimbs == 4
LimbBase == 65536

CounterZero == [i \in 1..NumLimbs |-> 0]
CounterMax == [i \in 1..NumLimbs |-> LimbBase - 1]

\* c + 1 modulo 2^64
RECURSIVE IncFrom(_, _)
IncFrom(c, i) ==
    IF i > NumLimbs THEN c
    ELSE IF c[i] = LimbBase - 1 THEN IncFrom([c EXCEPT ![i] = 0], i + 1)
    ELSE [c EXCEPT ![i] = c[i] + 1]

\* c - 1 modulo 2^64
RECURSIVE DecFrom(_, _)
DecFrom(c, i) ==
    IF i > NumLimbs THEN c
    ELSE IF c[i] = 0 THEN DecFrom([c EXCEPT ![i] = LimbBase - 1], i + 1)
    ELSE [c EXCEPT ![i] = c[i] - 1]

\* atomic.AddUint64(&counter, 1): the new value
AddUint64(c) == IncFrom(c, 1)

\* index % uint64(n)
RECURSIVE ModFrom(_, _, _, _)
ModFrom(c, n, i, acc) ==
    IF i = 0 THEN acc
    ELSE ModFrom(c, n, i - 1, (acc * LimbBase + c[i]) % n)

Mod64(c, n) == ModFrom(c, n, NumLimbs, 0)

---------------------------------------------------------------------------
(* NewManager and Validate as operations *)

IdleFrame == [pc |-> "idle", section |-> "none", held |-> <<>>,
              index |-> CounterZero]

\* NewManager (lines 57-116): assemble, Validate, return the manager or nil
NewManager ==
    /\ manager = "none"
    /\ config' = AssembleConfig(env)
    /\ heap' = AssembleHeap(env)
    /\ validationErrors' = Validate(config', heap')
    /\ manager' = IF Len(validationErrors') > 0 THEN "failed" ELSE "ok"
    /\ roundRobinCounter' = CounterZero
    /\ UNCHANGED <<env, frames, history, calls, writes, parseIn, parseOut>>

\* m.Validate() on a Manager built around a candidate Config (lines 162-209)
ValidateCandidate ==
    /\ manager = "candidate"
    /\ validationErrors' = Validate(config, heap)
    /\ manager' = "validated"
    /\ UNCHANGED <<env, config, heap, roundRobinCounter, frames, history,
                   calls, writes, parseIn, parseOut>>

---------------------------------------------------------------------------
(* The accessors *)

\* GetServerConfig, GetKeysConfig, GetAuthConfig, GetCORSConfig,
\* GetPerformanceConfig, GetLogConfig: return m.config.<Section>, a struct copy
GetSection(c, section) ==
    /\ manager = "ok"
    /\ frames[c].pc = "idle"
    /\ frames' = [frames EXCEPT ![c] =
                     [pc |-> "idle", section |-> section,
                      held |-> config[section], index |-> CounterZero]]
    /\ UNCHANGED <<env, manager, config, heap, roundRobinCounter,
                   validationErrors, history, calls, writes, parseIn, parseOut>>

GetServerConfig(c) == GetSection(c, "Server")
GetKeysConfig(c) == GetSection(c, "Keys")
GetAuthConfig(c) == GetSection(c, "Auth")
GetCORSConfig(c) == GetSection(c, "CORS")
GetPerformanceConfig(c) == GetSection(c, "Performance")
GetLogConfig(c) == GetSection(c, "Log")

\* line 131 with the branch taken for a single entry too
UsesRoundRobinForOne(n) == n >= 1

\* line 131: the round-robin branch is taken for more than one entry
UsesRoundRobin(n) == n > 1

\* lines 130-131 of GetOpenAIConfig: config := m.config.OpenAI, and the branch
GetOpenAIConfigBegin(c, limit) ==
    /\ manager = "ok"
    /\ frames[c].pc = "idle"
    /\ calls < limit
    /\ calls' = calls + 1
    /\ frames' = [frames EXCEPT ![c] =
                     [pc |-> IF UsesRoundRobin(config.OpenAI.BaseURLs.len)
                             THEN "add" ELSE "select",
                      section |-> "OpenAI",
                      held |-> config.OpenAI, index |-> CounterZero]]
    /\ UNCHANGED <<env, manager, config, heap, roundRobinCounter,
                   validationErrors, history, writes, parseIn, parseOut>>

\* line 133 without the "- 1"
FetchIndexNoDecrement(newValue) == newValue

\* line 133: index := atomic.AddUint64(&m.roundRobinCounter, 1) - 1
FetchIndex(newValue) == DecFrom(newValue, 1)

\* line 133 as a load and a later store instead of one atomic add
GetOpenAIConfigAddRacy(c) ==
    /\ \/ /\ frames[c].pc = "add"
          /\ frames' = [frames EXCEPT ![c].pc = "store",
                                      ![c].index = roundRobinCounter]
          /\ UNCHANGED roundRobinCounter
       \/ /\ frames[c].pc = "store"
          /\ roundRobinCounter' = AddUint64(frames[c].index)
          /\ frames' = [frames EXCEPT ![c].pc = "select"]
    /\ UNCHANGED <<env, manager, config, heap, validationErrors, history,
                   calls, writes, parseIn, parseOut>>

\* line 133, one indivisible step
GetOpenAIConfigAdd(c) ==
    /\ frames[c].pc = "add"
    /\ roundRobinCounter' = AddUint64(roundRobinCounter)
    /\ frames' = [frames EXCEPT ![c].pc = "select",
                                ![c].index = FetchIndex(roundRobinCounter')]
    /\ UNCHANGED <<env, manager, config, heap, validationErrors, history,
                   calls, writes, parseIn, parseOut>>

\* lines 134 and 136: the entry that becomes config.BaseURL
SelectBaseURL(hp, cfg, index) ==
    LET n == cfg.BaseURLs.len
    IN  IF UsesRoundRobin(n) THEN hp[cfg.BaseURLs.ptr][Mod64(index, n) + 1]
        ELSE IF n = 1 THEN hp[cfg.BaseURLs.ptr][1]
        ELSE cfg.BaseURL

\* lines 134-138: read the entry, set config.BaseURL, return config
GetOpenAIConfigReturn(c) ==
    /\ frames[c].pc = "select"
    /\ LET url == SelectBaseURL(heap, frames[c].held, frames[c].index)
       IN  /\ frames' = [frames EXCEPT ![c].pc = "idle",
                                       ![c].held.BaseURL = url]
           /\ history' = [history EXCEPT ![c] =
                             Append(@, [index |-> frames[c].index,
                                        BaseURL |-> url,
                                        rr |-> UsesRoundRobin(
                                                 frames[c].held.BaseURLs.len)])]
    /\ UNCHANGED <<env, manager, config, heap, roundRobinCounter,
                   validationErrors, calls, writes, parseIn, parseOut>>

---------------------------------------------------------------------------
(* What a caller can do with the value an accessor returned *)

WriteValues == {<<"e","v","i","l">>}

\* the caller assigns an element of a list field of the value it holds:
\* the slice header was copied, its backing array was not
WriteElement(c) ==
    /\ frames[c].pc = "idle"
    /\ frames[c].section # "none"
    /\ writes < MaxWrites
    /\ \E f \in SliceFields(frames[c].section) :
          \E i \in 1..frames[c].held[f].len :
             \E v \in WriteValues :
                heap' = [heap EXCEPT ![frames[c].held[f].ptr][i] = v]
    /\ writes' = writes + 1
    /\ UNCHANGED <<env, manager, config, roundRobinCounter, validationErrors,
                   frames, history, calls, parseIn, parseOut>>

\* the caller assigns a scalar field of the value it holds
AssignField(section, held) ==
    CASE section = "Server" -> [held EXCEPT !.Port = 0]
      [] section = "Keys" -> [held EXCEPT !.StartIndex = 0 - 1]
      [] section = "OpenAI" -> [held EXCEPT !.RequestTimeout = 0]
      [] section = "Auth" -> [held EXCEPT !.Key = <<"e","v","i","l">>]
      [] section = "CORS" -> [held EXCEPT !.Enabled = FALSE]
      [] section = "Performance" -> [held EXCEPT !.MaxConcurrentRequests = 0]
      [] section = "Log" -> [held EXCEPT !.EnableRequest = FALSE]

WriteField(c) ==
    /\ frames[c].pc = "idle"
    /\ frames[c].section # "none"
    /\ frames' = [frames EXCEPT ![c].held =
                     AssignField(frames[c].section, frames[c].held)]
    /\ frames' # frames
    /\ UNCHANGED <<env, manager, config, heap, roundRobinCounter,
                   validationErrors, history, calls, writes, parseIn, parseOut>>

---------------------------------------------------------------------------
(* parseArray applied to an input *)

ParseArrayStep ==
    /\ ~parseOut.done
    /\ parseOut' = [done |-> TRUE,
                    result |-> parseArray(parseIn.value, parseIn.defaultValue)]
    /\ UNCHANGED <<env, manager, config, heap, roundRobinCounter,
                   validationErrors, frames, history, calls, writes, parseIn>>

---------------------------------------------------------------------------
(* Inputs of the model *)

URLa == <<"h","t","t","p",":","/","/","a">>
URLb == <<"h","t","t","p",":","/","/","b">>
URLc == <<"h","t","t","p",":","/","/","c">>
URLd == <<"h","t","t","p",":","/","/","d">>

\* values of OPENAI_BASE_URL: one, two and three upstreams
UpstreamChoices ==
    {<<"h","t","t","p",":","/","/","a">>,
     <<"h","t","t","p",":","/","/","a",",","h","t","t","p",":","/","/","b">>,
     <<"h","t","t","p",":","/","/","a",","," ","h","t","t","p",":","/","/","b"," ",",","h","t","t","p",":","/","/","c">>}

\* four upstreams, a length that divides 2^64
UpstreamFour ==
    <<"h","t","t","p",":","/","/","a",",","h","t","t","p",":","/","/","b",",","h","t","t","p",":","/","/","c",",","h","t","t","p",":","/","/","d">>

\* candidate upstream entries for Validate: two URLs, a host with a space,
\* a missing scheme, a bare host name, a non-numeric port
URLPool == {URLa, <<"h","t","t","p","s",":","/","/","b",":","8","0","/","v","1">>,
            <<"h","t","t","p",":","/","/","a"," ","b">>, <<":","/","/","a">>,
            <<"a","p","i",".","o","p","e","n","a","i",".","c","o","m">>, <<"h","t","t","p",":","/","/","a",":","x">>}

MaxURLs == 2
MaxAccessCalls == 2

URLLists == UNION {[1..n -> URLPool] : n \in 0..MaxURLs}

PortChoices == {0 - 1, 0, 1, 7860, 65535, 65536}

ParseAlphabet == {"a", "b", ",", " "}
ParseInputs == UNION {[1..n -> ParseAlphabet] : n \in 0..MaxLen}
ParseDefaults == {<<>>, << <<"d">> >>}

AccessCallers == {1}

WithEnv(assignments) ==
    [n \in EnvNames |-> IF n \in DOMAIN assignments THEN assignments[n] ELSE <<>>]

RoundRobinEnvs == {WithEnv([OPENAI_BASE_URL |-> u]) : u \in UpstreamChoices}

AccessEnvs ==
    {WithEnv([PORT |-> p, SERVER_READ_TIMEOUT |-> r, SERVER_WRITE_TIMEOUT |-> w,
              SERVER_IDLE_TIMEOUT |-> i, API_KEYS |-> k, OPENAI_BASE_URL |-> u]) :
        p \in {<<>>, <<"0">>}, r \in {<<>>, <<"-","5">>},
        w \in {<<>>, <<"-","1">>}, i \in {<<>>, <<"x">>},
        k \in {<<>>, <<"k","1",",","k","2">>},
        u \in {<<>>, <<"h","t","t","p",":","/","/","a",",","h","t","t","p",":","/","/","b">>}}

\* a Config as a test in the package builds it, around chosen field values
CandidateConfig(port, startIndex, threshold, timeout, urls, maxConcurrent) ==
    [AssembleConfig(UnsetEnv) EXCEPT
        !.Server.Port = port,
        !.Keys.StartIndex = startIndex,
        !.Keys.BlacklistThreshold = threshold,
        !.OpenAI.RequestTimeout = timeout,
        !.OpenAI.BaseURLs = [ptr |-> "BaseURLs", len |-> Len(urls)],
        !.Performance.MaxConcurrentRequests = maxConcurrent]

CandidateHeap(urls) == [AssembleHeap(UnsetEnv) EXCEPT !["BaseURLs"] = urls]

\* counter values of a Manager that has served many calls
AgedCounters ==
    {CounterZero, CounterMax, DecFrom(CounterMax, 1),
     [CounterZero EXCEPT ![1] = LimbBase - 1]}

---------------------------------------------------------------------------
(* Specifications *)

NoCalls ==
    /\ frames = [c \in Callers |-> IdleFrame]
    /\ history = [c \in Callers |-> <<>>]
    /\ calls = 0
    /\ writes = 0

NoParse ==
    /\ parseIn = [value |-> <<>>, defaultValue |-> <<>>]
    /\ parseOut = [done |-> TRUE, result |-> <<>>]

NotConstructed ==
    /\ manager = "none"
    /\ config = <<>>
    /\ heap = <<>>
    /\ roundRobinCounter = CounterZero
    /\ validationErrors = <<>>

\* the process before NewManager, the upstream list taken from the environment
Init ==
    /\ env \in RoundRobinEnvs
    /\ NotConstructed
    /\ NoCalls
    /\ NoParse

Next ==
    \/ NewManager
    \/ \E c \in Callers :
          \/ GetOpenAIConfigBegin(c, MaxCalls)
          \/ GetOpenAIConfigAdd(c)
          \/ GetOpenAIConfigReturn(c)

Spec == Init /\ [][Next]_vars

\* the same process with a single caller making all the calls
InitSingle ==
    /\ env \in RoundRobinEnvs \cup {WithEnv([OPENAI_BASE_URL |-> UpstreamFour])}
    /\ NotConstructed
    /\ NoCalls
    /\ NoParse

NextSingle ==
    \/ NewManager
    \/ \E c \in AccessCallers :
          \/ GetOpenAIConfigBegin(c, MaxSingleCalls)
          \/ GetOpenAIConfigAdd(c)
          \/ GetOpenAIConfigReturn(c)

SpecSingle == InitSingle /\ [][NextSingle]_vars

\* one caller using every accessor and writing to what it got
InitAccess ==
    /\ env \in AccessEnvs
    /\ NotConstructed
    /\ NoCalls
    /\ NoParse

NextAccess ==
    \/ NewManager
    \/ \E c \in AccessCallers :
          \/ GetServerConfig(c)
          \/ GetKeysConfig(c)
          \/ GetAuthConfig(c)
          \/ GetCORSConfig(c)
          \/ GetPerformanceConfig(c)
          \/ GetLogConfig(c)
          \/ GetOpenAIConfigBegin(c, MaxAccessCalls)
          \/ GetOpenAIConfigAdd(c)
          \/ GetOpenAIConfigReturn(c)
          \/ WriteElement(c)
          \/ WriteField(c)

SpecAccess == InitAccess /\ [][NextAccess]_vars

\* Validate applied to candidate configurations
InitValidate ==
    /\ env = UnsetEnv
    /\ manager = "candidate"
    /\ \E port \in PortChoices, startIndex \in {0 - 1, 0, 2},
          threshold \in {0, 1}, timeout \in {0, 1, 30},
          urls \in URLLists, maxConcurrent \in {0, 100} :
          /\ config = CandidateConfig(port, startIndex, threshold, timeout,
                                      urls, maxConcurrent)
          /\ heap = CandidateHeap(urls)
    /\ roundRobinCounter = CounterZero
    /\ validationErrors = <<>>
    /\ NoCalls
    /\ NoParse

NextValidate == ValidateCandidate

SpecValidate == InitValidate /\ [][NextValidate]_vars

\* parseArray applied to every short input
InitParse ==
    /\ env = UnsetEnv
    /\ NotConstructed
    /\ NoCalls
    /\ parseIn \in [value : ParseInputs, defaultValue : ParseDefaults]
    /\ parseOut = [done |-> FALSE, result |-> <<>>]

NextParse == ParseArrayStep

SpecParse == InitParse /\ [][NextParse]_vars

\* a Manager that has been serving calls, its counter anywhere in its range
InitWrap ==
    /\ env \in RoundRobinEnvs \cup {WithEnv([OPENAI_BASE_URL |-> UpstreamFour])}
    /\ manager = "ok"
    /\ config = AssembleConfig(env)
    /\ heap = AssembleHeap(env)
    /\ validationErrors = <<>>
    /\ roundRobinCounter \in AgedCounters
    /\ NoCalls
    /\ NoParse

NextWrap ==
    \E c \in Callers :
       \/ GetOpenAIConfigBegin(c, MaxCalls)
       \/ GetOpenAIConfigAdd(c)
       \/ GetOpenAIConfigReturn(c)

SpecWrap == InitWrap /\ [][NextWrap]_vars

---------------------------------------------------------------------------
(* Vocabulary of the properties *)

\* the upstream list of the Manager
BaseURLs == Elems(heap, config.OpenAI.BaseURLs)

\* the GetOpenAIConfig calls that have returned: <<caller, k>> is the caller's k-th
Completed == UNION {{<<c, k>> : k \in 1..Len(history[c])} : c \in Callers}

Returned(call) == history[call[1]][call[2]]

Quiescent == \A c \in Callers : frames[c].pc = "idle"

TimesReturned(url) ==
    Cardinality({call \in Completed : Returned(call).BaseURL = url})

\* 0-based position of an entry in the upstream list
Position(url) == (CHOOSE i \in 1..Len(BaseURLs) : BaseURLs[i] = url) - 1

OnlyCaller(c) ==
    \A d \in Callers \ {c} : frames[d] = IdleFrame /\ history[d] = <<>>

HasMessage(m) == \E i \in 1..Len(validationErrors) : validationErrors[i] = m

\* C1: with three upstream entries and the cursor starting at 0, no cursor
\* value is observed by two calls, and whenever all calls have returned and
\* their number is 3n, each entry has been returned exactly n times.
C1_EachEntryEquallyOften ==
    (manager = "ok" /\ Len(BaseURLs) = 3) =>
        /\ \A x \in Completed : \A y \in Completed :
              x # y => Returned(x).index # Returned(y).index
        /\ (Quiescent /\ Cardinality(Completed) % 3 = 0) =>
              \A i \in 1..3 :
                 TimesReturned(BaseURLs[i]) * 3 = Cardinality(Completed)

\* every one of NumCallers callers has made calls, 3 * NumCallers in all
C1_Witness ==
    /\ manager = "ok" /\ Len(BaseURLs) = 3 /\ Quiescent
    /\ Cardinality(Completed) = 3 * NumCallers
    /\ \A c \in Callers : Len(history[c]) >= 1
    /\ \A i \in 1..3 : TimesReturned(BaseURLs[i]) = NumCallers

\* C2: on a fresh Manager with more than one upstream, when a single caller
\* makes all the calls, its k-th call returns BaseURLs[(k-1) mod L].
C2_SingleCallerCyclicOrder ==
    (manager = "ok" /\ Len(BaseURLs) > 1) =>
        \A c \in Callers :
           OnlyCaller(c) =>
              \A k \in 1..Len(history[c]) :
                 history[c][k].BaseURL =
                    BaseURLs[((k - 1) % Len(BaseURLs)) + 1]

\* nine calls of one caller on three entries: 0,1,2,0,1,2,0,1,2
C2_Witness ==
    /\ manager = "ok"
    /\ \E c \in Callers :
          /\ OnlyCaller(c)
          /\ Len(BaseURLs) = 3
          /\ [k \in 1..Len(history[c]) |-> history[c][k].BaseURL] =
                <<URLa, URLb, URLc, URLa, URLb, URLc, URLa, URLb, URLc>>

\* C3: with exactly one upstream entry every call returns that entry and
\* roundRobinCounter keeps the value it was constructed with.
C3_SingleEntryLeavesCounter ==
    (manager = "ok" /\ Len(BaseURLs) = 1) =>
        /\ roundRobinCounter = CounterZero
        /\ \A call \in Completed : Returned(call).BaseURL = BaseURLs[1]

\* every caller has had calls answered from a one-entry list
C3_Witness ==
    /\ manager = "ok" /\ Len(BaseURLs) = 1
    /\ \A c \in Callers : Len(history[c]) >= 2
    /\ roundRobinCounter = CounterZero

\* the number of conditions of Validate that a configuration violates
Bool2Nat(b) == IF b THEN 1 ELSE 0

ViolatedConditions ==
    Bool2Nat(config.Server.Port \notin 1..65535)
    + Bool2Nat(config.Keys.StartIndex < 0)
    + Bool2Nat(config.Keys.BlacklistThreshold < 1)
    + Bool2Nat(config.OpenAI.RequestTimeout < 1)
    + Bool2Nat(BaseURLs = <<>>)
    + Cardinality({i \in 1..Len(BaseURLs) : urlParse(BaseURLs[i]).err})
    + Bool2Nat(config.Performance.MaxConcurrentRequests < 1)

\* C4: Validate reports one message for every violated condition, whatever
\* failed before it.
C4_OneMessagePerViolation ==
    manager = "validated" => Len(validationErrors) = ViolatedConditions

\* port out of range, negative start index, empty upstream list: three messages
C4_Witness ==
    /\ manager = "validated"
    /\ config.Server.Port = 65536 /\ config.Keys.StartIndex < 0
    /\ BaseURLs = <<>>
    /\ config.Keys.BlacklistThreshold >= 1 /\ config.OpenAI.RequestTimeout >= 1
    /\ config.Performance.MaxConcurrentRequests >= 1
    /\ validationErrors = <<MsgPort, MsgStartIndex, MsgNoUpstream>>

\* what the accessors of a Manager return for a section, lists included
Visible(cfg, hp, section) ==
    [fields |-> cfg[section],
     lists |-> [f \in SliceFields(section) |-> Elems(hp, cfg[section][f])]]

\* C5: whatever callers write to the values the accessors returned, the
\* accessors go on returning what NewManager assembled.
C5_AccessorsReturnCopies ==
    manager = "ok" =>
        \A section \in Sections :
           Visible(config, heap, section) =
              Visible(AssembleConfig(env), AssembleHeap(env), section)

\* C6: the server timeouts of a Manager that NewManager returned are >= 0.
C6_ServerTimeoutsNonNegative ==
    manager = "ok" =>
        /\ config.Server.ReadTimeout >= 0
        /\ config.Server.WriteTimeout >= 0
        /\ config.Server.IdleTimeout >= 0

\* a URL with a well-formed scheme and host
WellFormedURL(u) ==
    /\ ~urlParse(u).err
    /\ urlParse(u).Scheme # <<>>
    /\ urlParse(u).Host # <<>>

\* C7: an empty upstream list is reported, and so is, by its value, every
\* entry that is not a URL with a well-formed scheme and host.
C7_MalformedUpstreamsReported ==
    manager = "validated" =>
        /\ BaseURLs = <<>> => HasMessage(MsgNoUpstream)
        /\ \A i \in 1..Len(BaseURLs) :
              ~WellFormedURL(BaseURLs[i]) => HasMessage(MsgBadURL(BaseURLs[i]))

\* C8: Validate reports the port exactly when it lies outside 1..65535.
C8_PortRange ==
    manager = "validated" =>
        /\ HasMessage(MsgPort) <=>
              (config.Server.Port < 1 \/ config.Server.Port > 65535)
        /\ config.Server.Port \in {0, 65536} => HasMessage(MsgPort)
        /\ config.Server.Port \in {7860, 65535} => ~HasMessage(MsgPort)

\* port 65536 is reported
C8_Witness ==
    /\ manager = "validated"
    /\ config.Server.Port = 65536
    /\ HasMessage(MsgPort)

\* the elements of a comma-separated string, by the positions of its commas:
\* a segment starts after position b, b = 0 or a comma, and ends before the
\* next comma or the end
SegmentStarts(s) == {0} \cup {i \in 1..Len(s) : s[i] = ","}

SegmentEnd(s, b) ==
    IF \E i \in (b + 1)..Len(s) : s[i] = ","
    THEN CHOOSE i \in (b + 1)..Len(s) :
            s[i] = "," /\ \A j \in (b + 1)..(i - 1) : s[j] # ","
    ELSE Len(s) + 1

NonBlank(s, b) == {i \in (b + 1)..(SegmentEnd(s, b) - 1) : ~IsSpace(s[i])}

NonBlankStarts(s) == {b \in SegmentStarts(s) : NonBlank(s, b) # {}}

TrimmedSegment(s, b) ==
    LET lo == CHOOSE i \in NonBlank(s, b) : \A j \in NonBlank(s, b) : i <= j
        hi == CHOOSE i \in NonBlank(s, b) : \A j \in NonBlank(s, b) : i >= j
    IN  SubSeq(s, lo, hi)

ExpectedList(s, defaultValue) ==
    LET starts == NonBlankStarts(s)
        Kth(k) == CHOOSE b \in starts :
                     Cardinality({a \in starts : a < b}) = k - 1
    IN  IF starts = {} THEN defaultValue
        ELSE [k \in 1..Cardinality(starts) |-> TrimmedSegment(s, Kth(k))]

\* C9: parseArray returns the default for an empty or all-blank input and
\* otherwise the trimmed non-blank elements in their order.
C9_ParseArray ==
    parseOut.done =>
        /\ parseOut.result = ExpectedList(parseIn.value, parseIn.defaultValue)
        /\ parseIn.value = <<"a",","," ",",","b">> =>
              parseOut.result = << <<"a">>, <<"b">> >>
        /\ parseIn.value = <<" ",","," ",",">> =>
              parseOut.result = parseIn.defaultValue

\* "a, ,b" gives ["a","b"]
C9_Witness ==
    /\ parseOut.done
    /\ parseIn.value = <<"a",","," ",",","b">>
    /\ parseOut.result = << <<"a">>, <<"b">> >>

\* C10: of two calls that took consecutive values of the counter, the second
\* returns the entry after the one the first returned, cyclically, for every
\* value of the counter.
C10_ConsecutiveCallsConsecutiveEntries ==
    (manager = "ok" /\ Len(BaseURLs) > 1) =>
        \A x \in Completed : \A y \in Completed :
           Returned(y).index = AddUint64(Returned(x).index) =>
              Position(Returned(y).BaseURL) =
                 (Position(Returned(x).BaseURL) + 1) % Len(BaseURLs)

=============================================================================
